---------------------------- MODULE Spec2Model ----------------------------
(***************************************************************************)
(* A model of the backtest engine of ivtpz/backtest-go: the Portfolio      *)
(* (src/portfolio.go), the Statistic (src/unnamed/part_001), the Exchange  *)
(* (src/exchange.go) and the Strategy (src/unnamed/part_002).              *)
(*                                                                         *)
(* Numbers.  The Go code computes in float64 and in shopspring decimals.   *)
(* The model computes in exact fixed point:                                *)
(*   money (cash, market value, equity, cost)  in units of 10^-(DP+1),     *)
(*   prices, commission rates, returns and drawdowns in units of 10^-DP,   *)
(*   quantities in units of 10^-1 (the order size 0.2 is 2).               *)
(* Money has one digit more than the policy precision DP, so that          *)
(* rounding to DP places is an operation that changes values.  The binary  *)
(* representation error of float64 is not modelled.                        *)
(***************************************************************************)
EXTENDS Integers, Sequences, FiniteSets, TLC

VARIABLES
    initialCash,        \* Portfolio.initialCash
    cash,               \* Portfolio.cash
    holdings,           \* Portfolio.holdings: symbol -> position (a partial map)
    transactions,       \* Portfolio.transactions
    equity,             \* Statistic.equity
    high,               \* Statistic.high
    low,                \* Statistic.low
    exchange,           \* the Exchange's fields
    latest,             \* the feed: symbol -> latest observation, or NoData
    cur,                \* the observation the feed delivered last, or NoData
    eventHistory,       \* Statistic.eventHistory
    transactionHistory, \* Statistic.transactionHistory
    obsLog,             \* history: the timestamps given to Statistic.Update since Reset
    valLog,             \* history: the portfolio values given to it since Reset
    before,             \* history: what the Statistic held when it was last reset
    pc,                 \* Backtest.Run: where the loop stands
    tick,               \* history: the calls Run has made for the current observation
    ret                 \* the last call: its name, its arguments and what it returned

\* the fields of the Statistic that track events and fills
tracked == <<eventHistory, transactionHistory>>

\* the variables of Run
run == <<pc, tick>>

\* the variables no call of the portfolio, the exchange, the strategy or the
\* statistic assigns
aside == <<pc, tick, before>>

vars == <<initialCash, cash, holdings, transactions, equity, high, low,
          exchange, latest, cur, eventHistory, transactionHistory, obsLog,
          valLog, before, pc, tick, ret>>

---------------------------------------------------------------------------
(* Bounds of the model *)

MaxTime == 3
MaxFeed == 2
MaxTx == 2
MaxEquity == 3
MaxQty == 4
MaxRatio == 1000
MaxReplay == 2
MaxTrack == 1
MaxRun == 3

(* Program constants *)

DP == 4

QtyScale == 10 ^ 1

PriceScale == 10 ^ DP

MoneyScale == 10 ^ (DP + 1)

\* 0.2 in quantity units: the order size of OnSignal, its holdings threshold
\* and the fraction of the latest price a buy needs in cash
OrderQty == 2

MinQty == 2

BuyFraction == 2

---------------------------------------------------------------------------
(* Inputs *)

Symbols == {"ETH", "BTC"}

NoData == [none |-> TRUE]

\* prices, in units of 10^-DP: 100, 90.0003
PriceInputs == {100 * PriceScale, 90 * PriceScale + 3}

\* the price positions are marked to, other than the fills' 100: 90.0003
MarkPrices == {90 * PriceScale + 3}

\* cash amounts, in money units: 1000, 20.04
CashInputs == {1000 * MoneyScale, 20 * MoneyScale + 4000}

\* cash amounts around what a buy at 100 needs: 20, 20.00001, 1000
BuyCashInputs == {20 * MoneyScale, 20 * MoneyScale + 1, 1000 * MoneyScale}

\* cash amounts that need rounding: 20.00005, -0.00005, -20.00004
OddCashInputs == {20 * MoneyScale + 5, -5, -20 * MoneyScale - 4}

InitialCashInputs == {1000 * MoneyScale}

\* cash amounts that give the statistic its equities: 0, 1000, 900, 1000.00005,
\* -0.00005, -20
EquityInputs ==
    {0, 1000 * MoneyScale, 900 * MoneyScale, 1000 * MoneyScale + 5, -5,
     -20 * MoneyScale}

SignalDirections == {"", "buy", "sell", "none"}

\* what a sequence given to the Statistic is made of: the observations of a
\* feed that is read from its start again after a Reset, the n-th with
\* time n, and portfolio values of 1000, 900 and -20
ReplayObservation(n) == [Time |-> n, Symbol |-> "ETH", Price |-> 100 * PriceScale]

ReplayCash == {1000 * MoneyScale, 900 * MoneyScale, -20 * MoneyScale}

---------------------------------------------------------------------------
(* Decimal arithmetic *)

Abs(n) == IF n < 0 THEN -n ELSE n

\* n / d (d > 0) rounded to the nearest integer, a half away from zero:
\* decimal.Round
RoundHalfAway(n, d) ==
    IF n >= 0 THEN (2 * n + d) \div (2 * d)
              ELSE -((2 * (-n) + d) \div (2 * d))

\* a money amount rounded to DP places: decimal.Round(4), still in money units
RoundDP(m) ==
    RoundHalfAway(m, MoneyScale \div PriceScale) * (MoneyScale \div PriceScale)

\* the quotient with integer part q and remainder r of a division by d,
\* carried k more decimal digits and then rounded, a half away from zero
RECURSIVE LongDiv(_, _, _, _)
LongDiv(q, r, d, k) ==
    IF k = 0 THEN (IF 2 * r >= d THEN q + 1 ELSE q)
    ELSE LongDiv(q * 10 + (r * 10) \div d, (r * 10) % d, d, k - 1)

\* (a - b) / b rounded to DP places, in units of 10^-DP: Sub, Div, Round(DP).
\* b # 0
Ratio(a, b) ==
    LET n == Abs(a - b)
        d == Abs(b)
        m == LongDiv(n \div d, n % d, d, DP)
    IN IF (a - b < 0) # (b < 0) THEN -m ELSE m

\* floor(a * r / d) for d > 0, r >= 0, evaluated without forming a * r
MulDivFloor(a, r, d) == (a \div d) * r + ((a % d) * r) \div d

---------------------------------------------------------------------------
(* Events *)

Signal(t, sym, dir) == [Time |-> t, Symbol |-> sym, Direction |-> dir]

\* Order{}: the zero value
NoOrder == [Time |-> 0, Symbol |-> "", Direction |-> "", Qty |-> 0,
            OrderType |-> "", Limit |-> 0]

NoError == [msg |-> ""]

Error(m) == [msg |-> m]

\* Fill.NetValue: what the fill moves in cash, in money units
NetValue(f) ==
    IF f.Direction = "BOT" THEN f.Qty * f.Price + f.Cost
                           ELSE f.Qty * f.Price - f.Cost

---------------------------------------------------------------------------
(* Portfolio *)

\* p.holdings[symbol].qty: the zero value when the key is missing
HeldQty(sym) == IF sym \in DOMAIN holdings THEN holdings[sym].qty ELSE 0

\* position after a fill: position.Create on the zero position, position.Update
\* on an existing one
PositionAfter(pos, f) ==
    LET q == IF f.Direction = "BOT" THEN pos.qty + f.Qty
             ELSE IF f.Direction = "SLD" THEN pos.qty - f.Qty
             ELSE pos.qty
    IN [qty |-> q, marketValue |-> q * f.Price]

ZeroPosition == [qty |-> 0, marketValue |-> 0]

\* position.UpdateValue
UpdateValue(pos, d) == [pos EXCEPT !.marketValue = pos.qty * d.Price]

RECURSIVE SumMarketValue(_)
SumMarketValue(S) ==
    IF S = {} THEN 0
    ELSE LET s == CHOOSE x \in S : TRUE
         IN holdings[s].marketValue + SumMarketValue(S \ {s})

ValueNoRound == cash + SumMarketValue(DOMAIN holdings)
\* Portfolio.Value
Value == RoundDP(cash + SumMarketValue(DOMAIN holdings))

\* Portfolio.IsInvested
IsInvested(sym) == sym \in DOMAIN holdings /\ holdings[sym].qty # 0

Call(op, status, arg, val, err) ==
    [op |-> op, status |-> status, arg |-> arg, val |-> val, err |-> err]

SetInitialCash(c) ==
    /\ initialCash' = c
    /\ ret' = Call("SetInitialCash", "ok", [v |-> c], NoData, NoError)
    /\ UNCHANGED <<cash, holdings, transactions, equity, high, low, exchange,
                   latest, cur, obsLog,
                   valLog, tracked>>

SetCash(c) ==
    /\ cash' = c
    /\ ret' = Call("SetCash", "ok", [v |-> c], NoData, NoError)
    /\ UNCHANGED <<initialCash, holdings, transactions, equity, high, low,
                   exchange, latest, cur, obsLog,
                   valLog, tracked>>

ResetClearsHoldings ==
    /\ cash' = 0
    /\ transactions' = <<>>
    /\ holdings' = << >>
    /\ ret' = Call("Reset", "ok", NoData, NoData, NoError)
    /\ UNCHANGED <<initialCash, equity, high, low, exchange, latest, cur, obsLog,
                   valLog, tracked>>
Reset ==
    /\ cash' = 0
    /\ transactions' = <<>>
    /\ ret' = Call("Reset", "ok", NoData, NoData, NoError)
    /\ UNCHANGED <<initialCash, holdings, equity, high, low, exchange, latest,
                   cur, obsLog,
                   valLog, tracked>>

\* the refusals of OnSignal
SellRefusedStrict(currQty) == currQty < MinQty
SellRefused(currQty) == currQty <= MinQty

BuyRefused(currCash, currPrice) == currCash <= BuyFraction * currPrice

\* what OnSignal returns: the call record.  data.Latest of a symbol the feed
\* has not seen is nil, and LatestPrice() on it ends the call with a runtime
\* panic.
OnSignalResult(signal) ==
    IF signal.Direction = ""
    THEN Call("OnSignal", "error", signal, NoOrder, Error("No direction"))
    ELSE IF latest[signal.Symbol] = NoData
    THEN Call("OnSignal", "panic", signal, NoData, NoError)
    ELSE LET currQty == HeldQty(signal.Symbol)
             currCash == cash
             currPrice == latest[signal.Symbol].Price
         IN IF signal.Direction = "sell" /\ SellRefused(currQty)
            THEN Call("OnSignal", "error", signal, NoOrder,
                      Error("No holdings to sell"))
            ELSE IF signal.Direction = "buy" /\ BuyRefused(currCash, currPrice)
            THEN Call("OnSignal", "error", signal, NoOrder,
                      Error("Not enough cash to buy"))
            ELSE Call("OnSignal", "ok", signal,
                      [Time |-> signal.Time, Symbol |-> signal.Symbol,
                       Direction |-> signal.Direction, Qty |-> OrderQty,
                       OrderType |-> "MKT", Limit |-> 0],
                      NoError)

OnSignal(signal) ==
    /\ ret' = OnSignalResult(signal)
    /\ UNCHANGED <<initialCash, cash, holdings, transactions, equity, high, low,
                   exchange, latest, cur, obsLog,
                   valLog, tracked>>

HoldingsAfterFill(f) ==
    IF f.Symbol \in DOMAIN holdings
    THEN [holdings EXCEPT ![f.Symbol] = PositionAfter(holdings[f.Symbol], f)]
    ELSE [s \in DOMAIN holdings \cup {f.Symbol} |->
            IF s = f.Symbol THEN PositionAfter(ZeroPosition, f) ELSE holdings[s]]

CashAfterFillSwapped(f) ==
    IF f.Direction = "BOT" THEN cash + NetValue(f) ELSE cash - NetValue(f)
CashAfterFill(f) ==
    IF f.Direction = "BOT" THEN cash - NetValue(f) ELSE cash + NetValue(f)

OnFill(f) ==
    /\ holdings' = HoldingsAfterFill(f)
    /\ cash' = CashAfterFill(f)
    /\ transactions' = Append(transactions, f)
    /\ ret' = Call("OnFill", "ok", f, f, NoError)
    /\ UNCHANGED <<initialCash, equity, high, low, exchange, latest, cur, obsLog,
                   valLog, tracked>>

Update(d) ==
    /\ holdings' = IF IsInvested(d.Symbol)
                   THEN [holdings EXCEPT ![d.Symbol] = UpdateValue(holdings[d.Symbol], d)]
                   ELSE holdings
    /\ ret' = Call("Update", "ok", d, NoData, NoError)
    /\ UNCHANGED <<initialCash, cash, transactions, equity, high, low, exchange,
                   latest, cur, obsLog,
                   valLog, tracked>>

---------------------------------------------------------------------------
(* Exchange *)

\* math.Floor(qty*price*comRate*10000) / 10000, in money units
calculateCommissionRounded(qty, price) ==
    (MulDivFloor(qty * price, exchange.CommissionRate, QtyScale * PriceScale)
       + (IF 2 * ((((qty * price) % (QtyScale * PriceScale))
                      * exchange.CommissionRate) % (QtyScale * PriceScale))
                >= QtyScale * PriceScale THEN 1 ELSE 0))
        * (MoneyScale \div PriceScale)
calculateCommission(qty, price) ==
    MulDivFloor(qty * price, exchange.CommissionRate, QtyScale * PriceScale)
        * (MoneyScale \div PriceScale)

calculateExchangeFee == exchange.ExchangeFee

calculateCost(commission, fee) == commission + fee

\* the switch of ExecuteOrder; it has no default case
FillDirection(dir) ==
    IF dir = "buy" THEN "BOT" ELSE IF dir = "sell" THEN "SLD" ELSE ""

MakeFill(t, sym, dir, qty, price, commission, fee) ==
    [Time |-> t, Symbol |-> sym, Exchange |-> exchange.Symbol,
     Direction |-> dir, Qty |-> qty, Price |-> price,
     Commission |-> commission, ExchangeFee |-> fee,
     Cost |-> calculateCost(commission, fee)]

FillPriceLimit(order) ==
    IF order.Limit # 0 THEN order.Limit ELSE latest[order.Symbol].Price
\* f.Price: latest.LatestPrice()
FillPrice(order) == latest[order.Symbol].Price

\* what ExecuteOrder returns: the call record.  data.Latest of a symbol the
\* feed has not seen is nil, and latest.LatestPrice() on it ends the call
\* with a runtime panic: the function has no statement returning an error.
ExecuteOrderResult(order) ==
    IF latest[order.Symbol] = NoData
    THEN Call("ExecuteOrder", "panic", order, NoData, NoError)
    ELSE LET price == FillPrice(order)
         IN Call("ExecuteOrder", "ok", order,
                 MakeFill(order.Time, order.Symbol, FillDirection(order.Direction),
                          order.Qty, price,
                          calculateCommission(order.Qty, price),
                          calculateExchangeFee),
                 NoError)

ExecuteOrder(order) ==
    /\ ret' = ExecuteOrderResult(order)
    /\ UNCHANGED <<initialCash, cash, holdings, transactions, equity, high, low,
                   exchange, latest, cur, obsLog,
                   valLog, tracked>>

---------------------------------------------------------------------------
(* Statistic *)

\* equityPoint{}: the zero value
ZeroPoint == [timestamp |-> 0, equity |-> 0, equityReturn |-> 0, drawdown |-> 0]

lastEquityPoint == equity[Len(equity)]

calcEquityReturnOfZero(e) ==
    IF Len(equity) = 0 THEN [e EXCEPT !.equityReturn = 0]
    ELSE IF lastEquityPoint.equity = 0 THEN [e EXCEPT !.equityReturn = 0]
    ELSE [e EXCEPT !.equityReturn = Ratio(e.equity, lastEquityPoint.equity)]
calcEquityReturn(e) ==
    IF Len(equity) = 0 THEN [e EXCEPT !.equityReturn = 0]
    ELSE IF lastEquityPoint.equity = 0 THEN [e EXCEPT !.equityReturn = PriceScale]
    ELSE [e EXCEPT !.equityReturn = Ratio(e.equity, lastEquityPoint.equity)]

calcDrawdownFromLast(e) ==
    IF high.equity = 0 THEN [e EXCEPT !.drawdown = 0]
    ELSE IF e.equity >= high.equity THEN [e EXCEPT !.drawdown = 0]
    ELSE IF lastEquityPoint.equity = 0 THEN [e EXCEPT !.drawdown = 0]
    ELSE [e EXCEPT !.drawdown = Ratio(e.equity, lastEquityPoint.equity)]
calcDrawdownFlipped(e) ==
    IF high.equity = 0 THEN [e EXCEPT !.drawdown = 0]
    ELSE IF e.equity >= high.equity THEN [e EXCEPT !.drawdown = 0]
    ELSE [e EXCEPT !.drawdown = -Ratio(e.equity, high.equity)]
calcDrawdown(e) ==
    IF high.equity = 0 THEN [e EXCEPT !.drawdown = 0]
    ELSE IF e.equity >= high.equity THEN [e EXCEPT !.drawdown = 0]
    ELSE [e EXCEPT !.drawdown = Ratio(e.equity, high.equity)]

\* the equity point Update builds from the observation and the portfolio
NewPoint(d) ==
    LET e0 == [ZeroPoint EXCEPT !.timestamp = d.Time, !.equity = Value]
        e1 == IF Len(equity) > 0 THEN calcEquityReturn(e0) ELSE e0
    IN IF Len(equity) > 0 THEN calcDrawdown(e1) ELSE e1

HighAfter(e) == IF e.equity >= high.equity THEN e ELSE high

LowAfter(e) == IF e.equity <= low.equity THEN e ELSE low

EquityAfterReplace(e) ==
    IF Len(equity) = 0 THEN <<e>> ELSE [equity EXCEPT ![Len(equity)] = e]
EquityAfter(e) == Append(equity, e)

StatUpdate(d) ==
    LET e == NewPoint(d)
    IN /\ high' = HighAfter(e)
       /\ low' = LowAfter(e)
       /\ equity' = EquityAfter(e)
       /\ obsLog' = Append(obsLog, d.Time)
       /\ valLog' = Append(valLog, Value)
       /\ ret' = Call("StatUpdate", "ok", d, e, NoError)
       /\ UNCHANGED <<initialCash, cash, holdings, transactions, exchange,
                      latest, cur, tracked>>

\* what the histories keep of the Statistic at a Reset
Held == [obsLog |-> obsLog, valLog |-> valLog, equity |-> equity,
         high |-> high, low |-> low]

StatResetKeepsHigh ==
    /\ equity' = <<>>
    /\ high' = high
    /\ low' = ZeroPoint
    /\ eventHistory' = <<>>
    /\ transactionHistory' = <<>>
    /\ obsLog' = <<>>
    /\ valLog' = <<>>
    /\ ret' = Call("StatReset", "ok", NoData, NoData, NoError)
    /\ UNCHANGED <<initialCash, cash, holdings, transactions, exchange, latest,
                   cur>>
StatReset ==
    /\ equity' = <<>>
    /\ high' = ZeroPoint
    /\ low' = ZeroPoint
    /\ eventHistory' = <<>>
    /\ transactionHistory' = <<>>
    /\ obsLog' = <<>>
    /\ valLog' = <<>>
    /\ ret' = Call("StatReset", "ok", NoData, NoData, NoError)
    /\ UNCHANGED <<initialCash, cash, holdings, transactions, exchange, latest,
                   cur>>

TrackEvent(e) ==
    /\ eventHistory' = Append(eventHistory, e)
    /\ ret' = Call("TrackEvent", "ok", e, NoData, NoError)
    /\ UNCHANGED <<initialCash, cash, holdings, transactions, equity, high, low,
                   exchange, latest, cur, obsLog, valLog,
                   transactionHistory>>

TrackTransaction(f) ==
    /\ transactionHistory' = Append(transactionHistory, f)
    /\ ret' = Call("TrackTransaction", "ok", f, NoData, NoError)
    /\ UNCHANGED <<initialCash, cash, holdings, transactions, equity, high, low,
                   exchange, latest, cur, obsLog, valLog, eventHistory>>

\* Statistic.firstEquityPoint, on a sequence that is not empty
firstEquityPoint == equity[1]

\* Statistic.maxDrawdownPoint: the index and the point, the first of the
\* lowest drawdown; (0, the zero point) when there is none.  Indices are
\* those of the model's sequences, one more than Go's.
RECURSIVE maxDrawdownIndex(_, _, _)
maxDrawdownIndex(i, index, maxDrawdown) ==
    IF i > Len(equity) THEN index
    ELSE IF equity[i].drawdown < maxDrawdown
    THEN maxDrawdownIndex(i + 1, i, equity[i].drawdown)
    ELSE maxDrawdownIndex(i + 1, index, maxDrawdown)

maxDrawdownPoint ==
    IF Len(equity) = 0 THEN ZeroPoint ELSE equity[maxDrawdownIndex(1, 1, 0)]

\* the loop of MaxDrawdownDuration: from index down to the first point, the
\* point whose equity is above that of maxPoint becomes maxPoint
RECURSIVE higherEquityPoint(_, _)
higherEquityPoint(index, maxPoint) ==
    IF index < 1 THEN maxPoint
    ELSE IF equity[index].equity > maxPoint.equity
    THEN higherEquityPoint(index - 1, equity[index])
    ELSE higherEquityPoint(index - 1, maxPoint)

\* Statistic.MaxDrawdownDuration, in units of the feed's time; the zero
\* time.Time is time 0
MaxDrawdownDuration ==
    IF Len(equity) = 0 THEN 0
    ELSE maxDrawdownPoint.timestamp
           - higherEquityPoint(maxDrawdownIndex(1, 1, 0), ZeroPoint).timestamp

\* what a query returns: the call record.  None of them assigns a field.
QueryResult(q) ==
    IF q = "MaxDrawdownDuration"
    THEN Call(q, "ok", NoData, [v |-> MaxDrawdownDuration], NoError)
    ELSE IF q = "MaxDrawdown"
    THEN Call(q, "ok", NoData, [v |-> maxDrawdownPoint.drawdown], NoError)
    ELSE IF q = "MaxDrawdownTime"
    THEN Call(q, "ok", NoData, [v |-> maxDrawdownPoint.timestamp], NoError)
    ELSE IF Len(equity) = 0
    THEN Call(q, "error", NoData, [v |-> 0],
              Error("could not calculate totalEquityReturn, no equity points found"))
    ELSE IF firstEquityPoint.equity = 0
    THEN Call(q, "panic", NoData, NoData, NoError)
    ELSE Call(q, "ok", NoData,
              [v |-> Ratio(lastEquityPoint.equity, firstEquityPoint.equity)],
              NoError)

Queries ==
    {"MaxDrawdown", "MaxDrawdownTime", "MaxDrawdownDuration", "TotalEquityReturn"}

Query(q) ==
    /\ ret' = QueryResult(q)
    /\ UNCHANGED <<initialCash, cash, holdings, transactions, equity, high, low,
                   exchange, latest, cur, obsLog,
                   valLog, tracked>>

\* the returns and drawdowns the model can hold: below MaxRatio in size
Within(v, base) == base # 0 => Abs(v - base) \div Abs(base) < MaxRatio

Representable(v) ==
    /\ Len(equity) > 0 => Within(v, lastEquityPoint.equity)
    /\ Len(equity) > 0 => Within(v, firstEquityPoint.equity)
    /\ Within(v, high.equity)

---------------------------------------------------------------------------
(* The feed *)

Now == IF cur = NoData THEN 0 ELSE cur.Time

\* the feed delivers its next observation, which becomes the latest of its symbol
DataNext(sym, price) ==
    LET d == [Time |-> Now + 1, Symbol |-> sym, Price |-> price]
    IN /\ cur' = d
       /\ latest' = [latest EXCEPT ![sym] = [Price |-> price]]
       /\ ret' = Call("DataNext", "ok", NoData, d, NoError)
       /\ UNCHANGED <<initialCash, cash, holdings, transactions, equity, high,
                      low, exchange, obsLog,
                   valLog, tracked>>

---------------------------------------------------------------------------
(* Strategy *)

\* CalculateSignal: a signal for the observation's time and symbol, with the
\* direction the strategy decides on, and no error
CalculateSignal(d, dir) ==
    /\ ret' = Call("CalculateSignal", "ok", d, Signal(d.Time, d.Symbol, dir),
                   NoError)
    /\ UNCHANGED <<initialCash, cash, holdings, transactions, equity, high, low,
                   exchange, latest, cur, obsLog, valLog, tracked>>

---------------------------------------------------------------------------
(* Backtest.Run: the loop over the feed.  For every observation: the
   strategy's signal, the portfolio's order, the exchange's fill, the fill
   applied to the portfolio, the portfolio marked to the observation, the
   statistic updated.  An error of OnSignal ends the signal's part of the
   tick. *)

\* the call just made joins the calls made for the current observation
Logged == tick' = Append(tick, ret')

\* where the loop goes after a call that can fail
After(call, then, else) ==
    IF call.status = "ok" THEN then
    ELSE IF call.status = "error" THEN else
    ELSE "crashed"

RunData ==
    /\ pc = "idle"
    /\ Now < MaxRun
    /\ \E price \in PriceInputs : DataNext("ETH", price)
    /\ pc' = "data"
    /\ tick' = <<ret'>>
    /\ UNCHANGED before

RunStrategy ==
    /\ pc = "data"
    /\ \E dir \in SignalDirections : CalculateSignal(cur, dir)
    /\ pc' = "signal"
    /\ Logged
    /\ UNCHANGED before

RunSignalSkipsRest ==
    /\ pc = "signal"
    /\ OnSignal(ret.val)
    /\ pc' = After(ret', "order", "idle")
    /\ Logged
    /\ UNCHANGED before
RunSignal ==
    /\ pc = "signal"
    /\ OnSignal(ret.val)
    /\ pc' = After(ret', "order", "mark")
    /\ Logged
    /\ UNCHANGED before

RunOrder ==
    /\ pc = "order"
    /\ ExecuteOrder(ret.val)
    /\ pc' = After(ret', "fill", "mark")
    /\ Logged
    /\ UNCHANGED before

RunFill ==
    /\ pc = "fill"
    /\ OnFill(ret.val)
    /\ pc' = "mark"
    /\ Logged
    /\ UNCHANGED before

RunMark ==
    /\ pc = "mark"
    /\ Update(cur)
    /\ pc' = "stat"
    /\ Logged
    /\ UNCHANGED before

RunStat ==
    /\ pc = "stat"
    /\ StatUpdate(cur)
    /\ pc' = "idle"
    /\ Logged
    /\ UNCHANGED before

\* the feed has no further observation: Run returns
RunDone ==
    /\ pc = "idle"
    /\ pc' = "done"
    /\ UNCHANGED <<initialCash, cash, holdings, transactions, equity, high, low,
                   exchange, latest, cur, obsLog, valLog, tracked, tick,
                   before, ret>>

---------------------------------------------------------------------------
(* Inputs of the calls *)

SignalInputs ==
    {Signal(Now, sym, dir) : sym \in Symbols, dir \in SignalDirections}

\* orders of 0.2 and of 100, with and without a limit price
OrderInputs ==
    [Time : {Now}, Symbol : Symbols, Direction : {"buy", "sell", "none"},
     Qty : {OrderQty, 100 * QtyScale}, OrderType : {"MKT"},
     Limit : {0, 50 * PriceScale}]

\* fills as a caller can hand them to OnFill: 0.2 at 100, with a commission
\* of 0.05 and no fee, and the zero time
FillInputs ==
    {MakeFill(0, sym, dir, OrderQty, 100 * PriceScale,
              5 * (MoneyScale \div 100), 0) :
        sym \in Symbols, dir \in {"BOT", "SLD"}}

\* main: Exchange{Symbol: "poloniex", ExchangeFee: 0, CommissionRate: 0.0025}
MainExchange == [Symbol |-> "poloniex", ExchangeFee |-> 0, CommissionRate |-> 25]

\* other exchanges: a fee of 0.01, rates of 0.0025, 0.0001 and 0.3333
ExchangeInputs ==
    [Symbol : {"poloniex"}, ExchangeFee : {0, MoneyScale \div 100},
     CommissionRate : {25, 1, 3333}]

---------------------------------------------------------------------------
(* The initial state: Portfolio{}, Statistic{}, an exchange, a feed that has
   delivered nothing *)

InitWith(x) ==
    /\ initialCash = 0
    /\ cash = 0
    /\ holdings = << >>
    /\ transactions = <<>>
    /\ equity = <<>>
    /\ high = ZeroPoint
    /\ low = ZeroPoint
    /\ exchange = x
    /\ latest = [s \in Symbols |-> NoData]
    /\ cur = NoData
    /\ eventHistory = <<>>
    /\ transactionHistory = <<>>
    /\ obsLog = <<>>
    /\ valLog = <<>>
    /\ before = [obsLog |-> <<>>, valLog |-> <<>>, equity |-> <<>>,
                 high |-> ZeroPoint, low |-> ZeroPoint]
    /\ pc = "idle"
    /\ tick = <<>>
    /\ ret = Call("New", "ok", NoData, NoData, NoError)

Init == InitWith(MainExchange)

Feed(prices, len) ==
    \E sym \in Symbols, price \in prices : Now < len /\ DataNext(sym, price)

Fill ==
    \E f \in FillInputs :
        /\ Len(transactions) < MaxTx
        /\ Abs(HoldingsAfterFill(f)[f.Symbol].qty) <= MaxQty
        /\ OnFill(f)

(* The portfolio: the calls that change it, in any order, on a feed *)

Next ==
    \/ /\ \E c \in InitialCashInputs : SetInitialCash(c)
       /\ UNCHANGED aside
    \/ /\ \E c \in CashInputs : SetCash(c)
       /\ UNCHANGED aside
    \/ Reset /\ UNCHANGED aside
    \/ Fill /\ UNCHANGED aside
    \/ cur # NoData /\ Update(cur) /\ UNCHANGED aside
    \/ Feed(MarkPrices, MaxFeed) /\ UNCHANGED aside

Spec == Init /\ [][Next]_vars

(* The portfolio and the signals it is asked to turn into orders *)

SignalNext ==
    \/ /\ \E c \in BuyCashInputs : SetCash(c)
       /\ UNCHANGED aside
    \/ Fill /\ UNCHANGED aside
    \/ Feed(PriceInputs, MaxFeed) /\ UNCHANGED aside
    \/ /\ \E sig \in SignalInputs : OnSignal(sig)
       /\ UNCHANGED aside

SignalSpec == Init /\ [][SignalNext]_vars

(* The portfolio's valuation and the statistic that records it: the
   statistic takes one point of a portfolio that any calls have led to, and
   is reset before the portfolio moves on *)

ValueNext ==
    \/ /\ equity = <<>>
       /\ \/ \E c \in OddCashInputs : SetCash(c)
          \/ Reset
          \/ Fill
          \/ cur # NoData /\ Update(cur)
          \/ Feed(MarkPrices, MaxFeed)
       /\ UNCHANGED aside
    \/ cur # NoData /\ equity = <<>> /\ StatUpdate(cur) /\ UNCHANGED aside
    \/ StatReset /\ UNCHANGED aside

ValueSpec == Init /\ [][ValueNext]_vars

(* The statistic: updates and resets on a portfolio whose value changes.
   The queries read the Statistic only, which SetCash and the feed leave as
   it is: they are asked of every Statistic, before the portfolio or the
   feed moves on *)

StatNext ==
    \/ /\ \E c \in EquityInputs : SetCash(c)
       /\ UNCHANGED aside
    \/ Now < MaxTime /\ DataNext("ETH", 100 * PriceScale) /\ UNCHANGED aside
    \/ /\ cur # NoData
       /\ Len(equity) < MaxEquity
       /\ Representable(Value)
       /\ StatUpdate(cur)
       /\ UNCHANGED aside
    \/ StatReset /\ UNCHANGED aside
    \/ /\ ret.op \notin {"SetCash", "DataNext"}
       /\ \E q \in Queries : Query(q)
       /\ UNCHANGED aside

StatSpec == Init /\ [][StatNext]_vars

(* The exchange: orders executed on a feed *)

ExchangeInit == \E x \in ExchangeInputs : InitWith(x)

ExchangeNext ==
    \/ /\ \E o \in OrderInputs : ExecuteOrder(o)
       /\ UNCHANGED aside
    \/ /\ Feed(PriceInputs \cup {10 * PriceScale, PriceScale \div 10}, MaxFeed)
       /\ UNCHANGED aside

ExchangeSpec == ExchangeInit /\ [][ExchangeNext]_vars

(* A run: the portfolio is given its cash, or left with none as main leaves
   it, and Run goes through a feed of at most MaxRun observations *)

RunSetup ==
    /\ ret.op = "New"
    /\ pc = "idle"
    /\ \E c \in BuyCashInputs : SetCash(c)
    /\ UNCHANGED aside

RunNext ==
    \/ RunSetup
    \/ RunData
    \/ RunStrategy
    \/ RunSignal
    \/ RunOrder
    \/ RunFill
    \/ RunMark
    \/ RunStat
    \/ RunDone

RunSpec == Init /\ [][RunNext]_vars

\* Run is one sequential loop: it takes its next step whenever it has one
FairRunSpec == Init /\ [][RunNext]_vars /\ WF_vars(RunNext)

(* The statistic reset and used again: sequences of observations and
   portfolio values, the events and fills it is told to track, and resets in
   between *)

ReplayNext ==
    \/ /\ \E c \in ReplayCash : SetCash(c)
       /\ UNCHANGED aside
    \/ /\ Len(equity) < MaxReplay
       /\ Representable(Value)
       /\ StatUpdate(ReplayObservation(Len(obsLog) + 1))
       /\ UNCHANGED aside
    \/ StatReset /\ before' = Held /\ UNCHANGED run
    \/ /\ Len(eventHistory) < MaxTrack
       /\ TrackEvent(ReplayObservation(Len(eventHistory) + 1))
       /\ UNCHANGED aside
    \/ /\ \E f \in FillInputs :
             /\ f.Symbol = "ETH"
             /\ f.Direction = "BOT"
             /\ Len(transactionHistory) < MaxTrack
             /\ TrackTransaction(f)
       /\ UNCHANGED aside

ReplaySpec == Init /\ [][ReplayNext]_vars

---------------------------------------------------------------------------
(* Properties *)

Unit == MoneyScale \div PriceScale

\* v is x rounded to DP places, a half away from zero
RoundedToDP(v, x) ==
    /\ v % Unit = 0
    /\ 2 * Abs(v - x) <= Unit
    /\ 2 * Abs(v - x) = Unit => Abs(v) > Abs(x)

MarketValueOf(s) == IF s \in DOMAIN holdings THEN holdings[s].marketValue ELSE 0

RECURSIVE TotalMarketValue(_)
TotalMarketValue(S) ==
    IF S = {} THEN 0
    ELSE LET s == CHOOSE x \in S : TRUE
         IN MarketValueOf(s) + TotalMarketValue(S \ {s})

CashPlusHoldings == cash + TotalMarketValue(Symbols)

\* C1: Value() is cash plus the market values of all positions, rounded to
\* 4 decimal places, whatever calls led to the portfolio; and the equity
\* point Statistic.Update appends carries the Value() of that call.
C1_ValueIsCashPlusHoldings ==
    /\ [](RoundedToDP(Value, CashPlusHoldings))
    /\ [][ret'.op = "StatUpdate" =>
            /\ Len(equity') = Len(equity) + 1
            /\ equity'[Len(equity')].equity = Value
            /\ RoundedToDP(equity'[Len(equity')].equity, CashPlusHoldings)]_vars

\* a point was taken of a portfolio with two positions and a total that
\* rounding changes
C1_Witness ==
    /\ ret.op = "StatUpdate"
    /\ Len(equity) = 1
    /\ Cardinality(DOMAIN holdings) = 2
    /\ CashPlusHoldings % Unit # 0
    /\ equity[1].equity # CashPlusHoldings

\* C2: OnFill takes price x qty + cost from cash for a bought fill, adds the
\* fill's net value to cash for a sold fill, and returns no error.
C2_OnFillMovesCash ==
    [][ret'.op = "OnFill" =>
        LET f == ret'.arg
        IN /\ f.Direction = "BOT" => cash' = cash - (f.Price * f.Qty + f.Cost)
           /\ f.Direction = "SLD" => cash' = cash + NetValue(f)
           /\ ret'.status = "ok"
           /\ ret'.err = NoError
           /\ ret'.val = f]_vars

\* a sold fill followed a bought one, each with a cost
C2_Witness ==
    /\ ret.op = "OnFill"
    /\ Len(transactions) = 2
    /\ transactions[1].Direction = "BOT"
    /\ transactions[2].Direction = "SLD"
    /\ ret.arg = transactions[2]
    /\ ret.arg.Cost > 0

\* C3: a portfolio configured with initial cash C has cash
\* C - (qty x price + cost) after its first bought fill (1000 gives 979.95).
C3_InitialCashFundsFirstBuy ==
    [][(/\ ret.op = "SetInitialCash"
        /\ ret'.op = "OnFill"
        /\ ret'.arg.Direction = "BOT"
        /\ transactions = <<>>)
       => cash' = initialCash - (ret'.arg.Qty * ret'.arg.Price + ret'.arg.Cost)]_vars

\* the error cases of OnSignal, from the signal and the state it is called
\* in; 2 is 0.2 in units of quantity, and quantity x price is in money units
C4_Refused(sig) ==
    \/ sig.Direction = ""
    \/ sig.Direction = "sell" /\ HeldQty(sig.Symbol) <= 2
    \/ sig.Direction = "buy" /\ cash <= 2 * latest[sig.Symbol].Price

RunningMax(i) == \A j \in 1..(i - 1) : equity[j].equity <= equity[i].equity

\* C5: every point of the equity sequence has a drawdown <= 0, and 0 when
\* its equity is at least that of every point before it.
C5_DrawdownNeverPositive ==
    \A i \in 1..Len(equity) :
        /\ equity[i].drawdown <= 0
        /\ RunningMax(i) => equity[i].drawdown = 0

\* a point with a drawdown below 0, and after it a new running maximum
C5_Witness ==
    \E i, k \in 1..Len(equity) :
        /\ i < k
        /\ equity[i].drawdown < 0
        /\ RunningMax(k)
        /\ equity[k].drawdown = 0

\* C6: after every Update the high-water point is a point of the equity
\* sequence, the latest of those with the maximum equity; an update below
\* the high-water equity leaves it unchanged.
C6_HighIsMaximum ==
    [][ret'.op = "StatUpdate" =>
        /\ \E i \in 1..Len(equity') :
              /\ equity'[i] = high'
              /\ \A j \in 1..Len(equity') : equity'[j].equity <= high'.equity
              /\ \A j \in (i + 1)..Len(equity') : equity'[j].equity < high'.equity
        /\ equity'[Len(equity')].equity < high.equity => high' = high]_vars

\* C7: after N updates the equity sequence has N points, the i-th with the
\* timestamp of the i-th observation; no update or query changes or removes
\* a point.
C7_OnePointPerUpdate ==
    /\ [](/\ Len(equity) = Len(obsLog)
          /\ \A i \in 1..Len(equity) : equity[i].timestamp = obsLog[i])
    /\ [][ret'.op # "StatReset" =>
            /\ Len(equity') >= Len(equity)
            /\ \A i \in 1..Len(equity) : equity'[i] = equity[i]]_vars
    /\ [][ret'.op = "StatUpdate" => Len(equity') = Len(equity) + 1]_vars

\* three updates, on observations of different times
C7_Witness ==
    /\ ret.op = "StatUpdate"
    /\ Len(equity) = 3
    /\ equity[1].timestamp < equity[2].timestamp
    /\ equity[2].timestamp < equity[3].timestamp

\* C8: ExecuteOrder returns the error NoPriceData and no fill when the feed
\* has no observation of the order's symbol, and a fill and no error when
\* it has.
C8_NoPriceDataError ==
    ret.op = "ExecuteOrder" =>
        IF latest[ret.arg.Symbol] = NoData
        THEN ret.status = "error" /\ ret.err # NoError /\ ret.val = NoData
        ELSE ret.status = "ok" /\ ret.err = NoError /\ ret.val # NoData

\* C9: for a buy or sell order, with any limit, on a symbol with a latest
\* price, the fill has the order's quantity, the latest price, the tag BOT
\* or SLD, and cost = commission + fee; the call leaves the exchange as it
\* was.
C9_FillAtLatestPrice ==
    /\ [](/\ ret.op = "ExecuteOrder"
          /\ ret.arg.Direction \in {"buy", "sell"}
          /\ latest[ret.arg.Symbol] # NoData
          => /\ ret.status = "ok"
             /\ ret.val.Qty = ret.arg.Qty
             /\ ret.val.Price = latest[ret.arg.Symbol].Price
             /\ ret.val.Symbol = ret.arg.Symbol
             /\ ret.val.Direction = (IF ret.arg.Direction = "buy" THEN "BOT" ELSE "SLD")
             /\ ret.val.Cost = ret.val.Commission + exchange.ExchangeFee
             /\ ret.val.ExchangeFee = exchange.ExchangeFee)
    /\ [][ret'.op = "ExecuteOrder" =>
            UNCHANGED <<exchange, latest, cash, holdings, transactions>>]_vars

\* a sell of 100 with a limit of 50 was filled at a latest price of 100, on
\* an exchange with a fee
C9_Witness ==
    /\ ret.op = "ExecuteOrder"
    /\ ret.status = "ok"
    /\ ret.arg.Direction = "sell"
    /\ ret.arg.Limit = 50 * PriceScale
    /\ ret.arg.Qty = 100 * QtyScale
    /\ ret.val.Price = 100 * PriceScale
    /\ ret.val.Direction = "SLD"
    /\ exchange.ExchangeFee > 0

\* c, in units of 10^-DP, is the largest integer with c <= a * r / d
LargestBelow(c, a, r, d) ==
    LET k == c - (a \div d) * r
    IN k * d <= (a % d) * r /\ (a % d) * r < (k + 1) * d

\* C10: the commission of a fill is the largest multiple of 10^-4 that does
\* not exceed quantity x price x rate; for 100 at 10 and a rate of 0.0025
\* it is 2.5.
C10_CommissionTruncates ==
    ret.op = "ExecuteOrder" /\ ret.status = "ok" =>
        /\ ret.val.Commission % Unit = 0
        /\ LargestBelow(ret.val.Commission \div Unit, ret.val.Qty * ret.val.Price,
                        exchange.CommissionRate, QtyScale * PriceScale)
        /\ (/\ ret.val.Qty = 100 * QtyScale
            /\ ret.val.Price = 10 * PriceScale
            /\ exchange.CommissionRate = 25)
           => ret.val.Commission = 25 * (MoneyScale \div 10)

\* 0.2 at 0.1 and a rate of 0.0025: 0.00005, of which the commission is 0
C10_Witness ==
    /\ ret.op = "ExecuteOrder"
    /\ ret.status = "ok"
    /\ ret.val.Qty = 2
    /\ ret.val.Price = PriceScale \div 10
    /\ exchange.CommissionRate = 25
    /\ ret.val.Commission = 0

FreshPoint(st, t, v) ==
    LET n == Len(st.equity)
    IN [timestamp |-> t,
        equity |-> v,
        equityReturn |->
            IF n = 0 THEN 0
            ELSE IF st.equity[n].equity = 0 THEN PriceScale
            ELSE Ratio(v, st.equity[n].equity),
        drawdown |->
            IF n = 0 \/ st.high.equity = 0 \/ v >= st.high.equity THEN 0
            ELSE Ratio(v, st.high.equity)]

FreshUpdate(st, t, v) ==
    LET e == FreshPoint(st, t, v)
    IN [equity |-> Append(st.equity, e),
        high |-> IF v >= st.high.equity THEN e ELSE st.high,
        low |-> IF v <= st.low.equity THEN e ELSE st.low]

\* what a fresh Statistic holds after the first n of the observations and
\* values given since the last Reset
RECURSIVE OnFresh(_)
OnFresh(n) ==
    IF n = 0 THEN [equity |-> <<>>, high |-> ZeroPoint, low |-> ZeroPoint]
    ELSE FreshUpdate(OnFresh(n - 1), obsLog[n], valLog[n])

\* C12: after a Reset, whatever the Statistic held before, the updates give
\* the equity sequence and the high and low points a fresh Statistic gets
\* from the same observations and values, and so the ones the Statistic
\* held before the Reset when the sequence is the one it was given then;
\* Reset empties the event and transaction histories.
C12_ResetThenReplay ==
    /\ []([equity |-> equity, high |-> high, low |-> low] = OnFresh(Len(obsLog)))
    /\ [](obsLog = before.obsLog /\ valLog = before.valLog
            => equity = before.equity /\ high = before.high /\ low = before.low)
    /\ [][ret'.op = "StatReset" =>
            /\ eventHistory' = <<>>
            /\ transactionHistory' = <<>>
            /\ equity' = <<>>]_vars

\* a sequence of 1000 and then 900 was given again after a Reset, made while
\* the high point was the first point, and the Statistic tracks an event
\* and a fill again
C12_Witness ==
    /\ ret.op = "StatUpdate"
    /\ Len(equity) = 2
    /\ before.obsLog = obsLog
    /\ before.valLog = valLog
    /\ before.high = before.equity[1]
    /\ equity[1].equity = 1000 * MoneyScale
    /\ equity[2].drawdown = -(PriceScale \div 10)
    /\ high = equity[1]
    /\ Len(eventHistory) = 1
    /\ Len(transactionHistory) = 1

\* the calls of a tick in which OnSignal fails, and of one in which it
\* returns an order
RefusedTick == <<"DataNext", "CalculateSignal", "OnSignal", "Update", "StatUpdate">>

FilledTick ==
    <<"DataNext", "CalculateSignal", "OnSignal", "ExecuteOrder", "OnFill",
      "Update", "StatUpdate">>

TickPlan ==
    IF Len(tick) >= 3 /\ tick[3].status = "ok" THEN FilledTick ELSE RefusedTick

TickOps == [i \in 1..Len(tick) |-> tick[i].op]

TickComplete == TickOps = TickPlan

\* C13: for every observation Run makes, in this order, one call of the
\* strategy, one of OnSignal, then, only if OnSignal returned an order, one
\* of ExecuteOrder and one of OnFill, and then, also after a failed
\* OnSignal, one of Portfolio.Update and one of Statistic.Update, all for
\* that observation; it takes the next observation only after these; no
\* call crashes; and Run ends.
C13_OneTickPerObservation ==
    /\ [](/\ pc # "crashed"
          /\ Len(tick) <= Len(TickPlan)
          /\ TickOps = SubSeq(TickPlan, 1, Len(tick))
          /\ Len(tick) >= 3 => tick[3].status \in {"ok", "error"}
          /\ \A i \in 1..Len(tick) :
                /\ tick[i].op = "DataNext" => tick[i].val = cur
                /\ tick[i].op \in {"CalculateSignal", "Update", "StatUpdate"}
                      => tick[i].arg = cur
                /\ tick[i].op \in {"OnSignal", "ExecuteOrder", "OnFill"}
                      => tick[i].arg = tick[i - 1].val
                /\ tick[i].op \in {"OnSignal", "ExecuteOrder", "OnFill"}
                      => tick[i].arg.Time = cur.Time /\ tick[i].arg.Symbol = cur.Symbol
          /\ pc \in {"idle", "done"} => tick = <<>> \/ TickComplete
          /\ Len(equity) = (IF pc \in {"idle", "done"} THEN Now ELSE Now - 1)
          /\ Len(transactions) <= Now
          /\ \A i, j \in 1..Len(transactions) :
                i < j => transactions[i].Time < transactions[j].Time)
    /\ [][ret'.op = "DataNext" => pc = "idle" /\ (tick = <<>> \/ TickComplete)]_vars
    /\ [][pc = "done" => pc' = "done"]_vars
    /\ <>(pc = "done")

\* Run has ended after three observations: one led to a fill, and the last
\* to an error of OnSignal, after which the portfolio was marked and the
\* statistic updated
C13_Witness ==
    /\ pc = "done"
    /\ Now = 3
    /\ Len(equity) = 3
    /\ Len(transactions) = 1
    /\ TickOps = RefusedTick
    /\ tick[3].status = "error"
    /\ equity[3].timestamp = 3

\* C14: TotalEquityReturn returns the error NoEquityData exactly when the
\* equity sequence is empty; for every sequence that is not empty it
\* returns, without error or crash, (last equity - first equity) / first
\* equity rounded to DP places.
C14_TotalEquityReturn ==
    ret.op = "TotalEquityReturn" =>
        /\ (ret.status = "error") <=> (Len(equity) = 0)
        /\ (ret.err # NoError) <=> (Len(equity) = 0)
        /\ Len(equity) > 0 =>
              /\ ret.status = "ok"
              /\ ret.val = [v |-> Ratio(equity[Len(equity)].equity, equity[1].equity)]

\* the product of a and b (both >= 0), in three digits of base 10^4, the
\* highest first
Product(a, b) ==
    LET B == 10 ^ 4
        lo == (a % B) * (b % B)
        mid == (a \div B) * (b % B) + (a % B) * (b \div B) + lo \div B
    IN <<(a \div B) * (b \div B) + mid \div B, mid % B, lo % B>>

\* x < y, for such products
Below(x, y) ==
    \/ x[1] < y[1]
    \/ x[1] = y[1] /\ x[2] < y[2]
    \/ x[1] = y[1] /\ x[2] = y[2] /\ x[3] < y[3]

\* r, in units of 10^-DP, is (a - b) / b rounded to DP places, a half away
\* from zero (b # 0)
IsRatio(r, a, b) ==
    LET n == Abs(a - b)
        d == Abs(b)
        m == Abs(r)
    IN /\ m > 0 => ~Below(Product(n, 2 * PriceScale), Product(2 * m - 1, d))
       /\ Below(Product(n, 2 * PriceScale), Product(2 * m + 1, d))
       /\ m > 0 => ((r < 0) <=> ((a - b < 0) # (b < 0)))

\* C15: Update gives the first point of a sequence the return 0, and every
\* later point the return (equity - previous equity) / previous equity
\* rounded to DP places, or 1 when the previous equity is 0.
C15_EquityReturn ==
    [][ret'.op = "StatUpdate" =>
        LET e == equity'[Len(equity')]
            n == Len(equity)
        IN /\ e = ret'.val
           /\ n = 0 => e.equityReturn = 0
           /\ n > 0 /\ equity[n].equity = 0 => e.equityReturn = PriceScale
           /\ n > 0 /\ equity[n].equity # 0 =>
                 IsRatio(e.equityReturn, e.equity, equity[n].equity)]_vars

\* a first point of equity 0 with return 0, a second with return 1, and a
\* third, of 1000 after 900, with return 0.1111
C15_Witness ==
    /\ ret.op = "StatUpdate"
    /\ Len(equity) = 3
    /\ equity[1].equity = 0
    /\ equity[1].equityReturn = 0
    /\ equity[2].equity = 900 * MoneyScale
    /\ equity[2].equityReturn = PriceScale
    /\ equity[3].equity = 1000 * MoneyScale
    /\ equity[3].equityReturn = 1111

\* the scenario of the claim: a sequence of one point of equity 1000, and an
\* update with a portfolio value of 900
AfterOneThousand(e) ==
    /\ Len(equity) = 1
    /\ equity[1].equity = 1000 * MoneyScale
    /\ e.equity = 900 * MoneyScale

\* -0.1 in units of 10^-DP
MinusTenth == -(PriceScale \div 10)

\* C16: an Update whose equity is below the high-water equity before the
\* call gives the new point the drawdown (equity - high-water equity) /
\* high-water equity rounded to DP places and leaves the high-water point
\* unchanged; 900 after 1000 gives return -0.1, drawdown -0.1 and the
\* first point as high-water point.
C16_DrawdownBelowHigh ==
    [][ret'.op = "StatUpdate" /\ ret'.val.equity < high.equity =>
        LET e == equity'[Len(equity')]
        IN /\ IsRatio(e.drawdown, e.equity, high.equity)
           /\ high' = high
           /\ AfterOneThousand(e) =>
                 /\ e.equityReturn = MinusTenth
                 /\ e.drawdown = MinusTenth
                 /\ high' = equity'[1]]_vars

\* C16 as amended: the drawdown is that quotient when the high-water equity
\* before the call is not 0, and 0 when it is 0; the high-water point is
\* unchanged in both cases; the scenario is as claimed.
C16_DrawdownBelowNonzeroHigh ==
    [][ret'.op = "StatUpdate" /\ ret'.val.equity < high.equity =>
        LET e == equity'[Len(equity')]
        IN /\ high.equity # 0 => IsRatio(e.drawdown, e.equity, high.equity)
           /\ high.equity = 0 => e.drawdown = 0
           /\ high' = high
           /\ AfterOneThousand(e) =>
                 /\ e.equityReturn = MinusTenth
                 /\ e.drawdown = MinusTenth
                 /\ high' = equity'[1]]_vars

\* 900 after 1000, and then 900 again, below a high-water point that is
\* not the last point
C16_Witness ==
    /\ ret.op = "StatUpdate"
    /\ Len(equity) = 3
    /\ equity[1].equity = 1000 * MoneyScale
    /\ equity[2].equity = 900 * MoneyScale
    /\ equity[2].equityReturn = MinusTenth
    /\ equity[2].drawdown = MinusTenth
    /\ equity[3].equity = 900 * MoneyScale
    /\ equity[3].equityReturn = 0
    /\ equity[3].drawdown = MinusTenth
    /\ high = equity[1]

\* the index of the max-drawdown point: the first of the points with the
\* lowest drawdown
FirstLowestDrawdown ==
    CHOOSE i \in 1..Len(equity) :
        /\ \A j \in 1..Len(equity) : equity[i].drawdown <= equity[j].drawdown
        /\ \A j \in 1..(i - 1) : equity[j].drawdown > equity[i].drawdown

\* the index of the peak at point i: the latest of the points up to i with
\* the highest equity, which is the high-water point once point i is
\* recorded
PeakAt(i) ==
    CHOOSE k \in 1..i :
        /\ \A j \in 1..i : equity[j].equity <= equity[k].equity
        /\ \A j \in (k + 1)..i : equity[j].equity < equity[k].equity

\* C17: MaxDrawdownDuration is 0 for the empty sequence; for a sequence that
\* is not empty it is the timestamp of the max-drawdown point minus the
\* timestamp of the peak before it, and it is never negative.
C17_MaxDrawdownDuration ==
    ret.op = "MaxDrawdownDuration" =>
        /\ ret.status = "ok"
        /\ ret.val.v >= 0
        /\ Len(equity) = 0 => ret.val.v = 0
        /\ Len(equity) > 0 =>
              ret.val.v = equity[FirstLowestDrawdown].timestamp
                            - equity[PeakAt(FirstLowestDrawdown)].timestamp

\* C18: after every Update since creation or the last Reset, the low-water
\* point is a point of the equity sequence, and its equity is the lowest of
\* the sequence.
C18_LowIsMinimum ==
    Len(equity) > 0 =>
        /\ \E i \in 1..Len(equity) : equity[i] = low
        /\ \A j \in 1..Len(equity) : low.equity <= equity[j].equity

\* C19: in a run that starts with cash >= 0 and applies only fills the
\* exchange made of orders OnSignal accepted at the same latest price, cash
\* is not negative after any OnFill.
C19_CashNeverNegative ==
    ret.op = "OnFill" => cash >= 0

\* the direction of the signal of the current tick, once the strategy has
\* given it
TickSignal == tick[2].val

\* C20: every order OnSignal returns without error has direction buy or
\* sell, every fill ExecuteOrder makes of such an order is tagged BOT or
\* SLD, OnFill raises cash only for a fill that came from a sell signal,
\* and a signal of any other direction gets no order and changes no cash.
C20_OnlyBuyAndSellTrade ==
    /\ [](\A i \in 1..Len(tick) :
            /\ tick[i].op = "OnSignal" /\ tick[i].status = "ok"
                  => tick[i].val.Direction \in {"buy", "sell"}
            /\ tick[i].op = "ExecuteOrder" /\ tick[i].status = "ok"
                  => tick[i].val.Direction \in {"BOT", "SLD"}
            /\ tick[i].op = "OnSignal" /\ tick[i].arg.Direction \notin {"buy", "sell"}
                  => tick[i].status = "error" /\ tick[i].val = NoOrder)
    /\ [][ret'.op = "OnFill" /\ cash' > cash => TickSignal.Direction = "sell"]_vars
    /\ [][Len(tick) >= 2 /\ pc # "idle" /\ TickSignal.Direction \notin {"buy", "sell"}
            => cash' = cash]_vars

====
